---- MODULE Spec2Model ----
(***************************************************************************)
(* Model of src/main.py: a FastAPI service with POST /split (split_audio)  *)
(* and GET /health (health_check).                                         *)
(*                                                                         *)
(* split_audio is a coroutine.  Its only suspension point is               *)
(* `await file.read()` (line 62); every other statement, the blocking      *)
(* subprocess.run included, runs on the event loop without yielding.  So   *)
(* handlers of different requests interleave at line 62 and nowhere else.  *)
(* health_check is a plain `def`: the framework runs it on a worker        *)
(* thread, so it may run at any moment.  The model is of one server        *)
(* process; several worker processes would interleave every step.          *)
(*                                                                         *)
(* File names and extensions are sequences of character codes, so that     *)
(* the sort of line 109 is the string comparison the code performs.        *)
(***************************************************************************)
EXTENDS Integers, Sequences, FiniteSets, TLC

\* ------------------------------------------------------------------ bounds
MaxReq == 2
MaxSeg == 2
MaxOrdinal == 1001

\* ------------------------------------------------- constants of the program
PadWidth == 3
HttpError == 500

Reqs == 1..MaxReq

\* character codes: "0".."9", "out", "input_audio", ".m4a", ".mp3"
DigitChars == <<48, 49, 50, 51, 52, 53, 54, 55, 56, 57>>
OutPrefix == <<111, 117, 116>>
InputStem == <<105, 110, 112, 117, 116, 95, 97, 117, 100, 105, 111>>
DefaultExt == <<46, 109, 52, 97>>
Mp3Ext == <<46, 109, 112, 51>>
Dot == DefaultExt[1]

\* The file names a request may carry: absent, "a", ".mp3", "a.mp3", "a.m4a".
Filenames ==
  { <<>>, <<97>>, Mp3Ext, <<97>> \o Mp3Ext, <<97>> \o DefaultExt }

\* ------------------------------------------------------------ pure helpers
\* os.path.splitext(name)[1]: from the last dot on, unless that dot is
\* among the leading dots of the name.
LastDot(name) ==
  IF \E i \in 1..Len(name) : name[i] = Dot
  THEN CHOOSE i \in 1..Len(name) :
         name[i] = Dot /\ \A j \in (i + 1)..Len(name) : name[j] # Dot
  ELSE 0

SplitExt(name) ==
  LET d == LastDot(name)
  IN IF d = 0 \/ (\A j \in 1..d : name[j] = Dot)
     THEN <<>>
     ELSE SubSeq(name, d, Len(name))

\* lines 53-55
OriginalExt(filename) ==
  LET e == IF filename # <<>> THEN SplitExt(filename) ELSE DefaultExt
  IN IF e = <<>> THEN DefaultExt ELSE e

RECURSIVE Digits(_)
Digits(n) ==
  IF n < 10 THEN <<DigitChars[n + 1]>>
  ELSE Digits(n \div 10) \o <<DigitChars[(n % 10) + 1]>>

RECURSIVE PadLeft(_, _)
PadLeft(s, w) == IF Len(s) >= w THEN s ELSE PadLeft(<<DigitChars[1]>> \o s, w)

\* a pattern of "%d": the ordinal without its padding
OrdinalUnpadded(n) == Digits(n)

\* "%03d" of the output pattern
Ordinal(n) == PadLeft(Digits(n), PadWidth)

\* line 57
InputName(e) == InputStem \o e

\* line 58, as the tool expands it for segment n
SegName(n, e) == OutPrefix \o Ordinal(n) \o e

\* Python's str ordering: the first differing character decides, else length.
RECURSIVE LexLess(_, _)
LexLess(a, b) ==
  IF b = <<>> THEN FALSE
  ELSE IF a = <<>> THEN TRUE
  ELSE IF a[1] # b[1] THEN a[1] < b[1]
  ELSE LexLess(Tail(a), Tail(b))

StartsWith(f, pre) == Len(f) >= Len(pre) /\ SubSeq(f, 1, Len(pre)) = pre

\* sorted(...)
RECURSIVE SortNames(_)
SortNames(S) ==
  IF S = {} THEN <<>>
  ELSE LET m == CHOOSE x \in S : \A y \in S \ {x} : LexLess(x, y)
       IN <<m>> \o SortNames(S \ {m})

\* line 109
ListOutputs(dir) == SortNames({f \in DOMAIN dir : StartsWith(f, OutPrefix)})

\* ------------------------------------------------------------------- state
VARIABLES
  dirExists,      \* /tmp/split_task exists
  dirFiles,       \* its files: name -> content
  toolInstalled,  \* an ffmpeg binary is on the PATH
  pc,             \* each request's position in split_audio
  original_ext,   \* the extension kept from the upload's file name
  child,          \* the request's ffmpeg process: none, running, exited, killed
  started,        \* ffmpeg processes the request has started
  produced,       \* output files the request's ffmpeg has written
  files,          \* the sorted names of line 109
  chunks,         \* `chunks` of line 108
  resp,           \* the response sent
  health,         \* the last /health response
  overlap,        \* history: some request began while another was in progress
  ordA, ordB,     \* two ordinals of one run of the tool
  ordExt,         \* that run's extension
  cmp             \* how line 109 orders their file names

fsVars == <<dirExists, dirFiles>>
reqVars == <<pc, original_ext, child, started, produced, files, chunks, resp>>
histVars == <<overlap>>
sortVars == <<ordA, ordB, ordExt, cmp>>
vars == <<fsVars, toolInstalled, reqVars, health, histVars, sortVars>>

NoFiles == [f \in {} |-> 0]

Content(src, ord) == [src |-> src, ord |-> ord]
InputOrd == 0 - 1

NoResp ==
  [kind |-> "none", status |-> 0, success |-> FALSE, totalChunks |-> 0,
   chunks |-> <<>>, detail |-> <<>>]

\* raise HTTPException(status_code=500, detail=...), or an exception the
\* handler does not catch, which the framework answers with a bare 500
ErrorResp(kind, detail) ==
  [kind |-> kind, status |-> HttpError, success |-> FALSE, totalChunks |-> 0,
   chunks |-> <<>>, detail |-> detail]

\* lines 129-135
SplitResponse(cs) ==
  [kind |-> "ok", status |-> 200, success |-> TRUE, totalChunks |-> Len(cs),
   chunks |-> cs, detail |-> <<>>]

\* lines 118-123; data stands for the base64 text of the bytes read
ChunkResponse(idx, filename, content) ==
  [index |-> idx, fileName |-> filename, data |-> content]

NoHealth ==
  [outcome |-> "none", status |-> "", ffmpeg |-> "", ffmpeg_version |-> "",
   http |-> 0]

\* positions between which the handler does not yield the event loop
Blocking == {"run", "tool", "list", "read"}
InProgress(p) == pc[p] \notin {"idle", "done"}
LoopFree == \A p \in Reqs : pc[p] \notin Blocking

Init ==
  /\ dirExists = FALSE
  /\ dirFiles = NoFiles
  /\ toolInstalled \in BOOLEAN
  /\ pc = [p \in Reqs |-> "idle"]
  /\ original_ext = [p \in Reqs |-> <<>>]
  /\ child = [p \in Reqs |-> "none"]
  /\ started = [p \in Reqs |-> 0]
  /\ produced = [p \in Reqs |-> 0]
  /\ files = [p \in Reqs |-> <<>>]
  /\ chunks = [p \in Reqs |-> <<>>]
  /\ resp = [p \in Reqs |-> NoResp]
  /\ health = NoHealth
  /\ overlap = FALSE
  /\ ordA = 0 /\ ordB = 0 /\ ordExt = DefaultExt /\ cmp = "none"

\* the handler returns or raises: its locals go with its frame
Discard(p) ==
  /\ original_ext' = [original_ext EXCEPT ![p] = <<>>]
  /\ produced' = [produced EXCEPT ![p] = 0]
  /\ files' = [files EXCEPT ![p] = <<>>]
  /\ chunks' = [chunks EXCEPT ![p] = <<>>]

Keep == UNCHANGED <<original_ext, produced, files, chunks>>

\* shutil.rmtree(temp_dir)
RmTree ==
  /\ dirExists' = FALSE
  /\ dirFiles' = NoFiles

\* os.makedirs(temp_dir, exist_ok=True) in place of lines 48-50: what is on
\* disk stays
BeginKeep(p) ==
  /\ pc[p] = "idle"
  /\ LoopFree
  /\ \E filename \in Filenames : original_ext' = [original_ext EXCEPT ![p] = OriginalExt(filename)]
  /\ dirExists' = TRUE
  /\ dirFiles' = dirFiles
  /\ pc' = [pc EXCEPT ![p] = "await"]
  /\ overlap' = (overlap \/ \E q \in Reqs \ {p} : InProgress(q))
  /\ UNCHANGED <<toolInstalled, child, started, produced, files,
                 chunks, resp, health, sortVars>>

\* lines 45-62: clear and recreate the workspace, derive the extension, then
\* suspend in `await file.read()`
Begin(p) ==
  /\ pc[p] = "idle"
  /\ LoopFree
  /\ \E filename \in Filenames : original_ext' = [original_ext EXCEPT ![p] = OriginalExt(filename)]
  /\ dirExists' = TRUE
  /\ dirFiles' = NoFiles
  /\ pc' = [pc EXCEPT ![p] = "await"]
  /\ overlap' = (overlap \/ \E q \in Reqs \ {p} : InProgress(q))
  /\ UNCHANGED <<toolInstalled, child, started, produced, files,
                 chunks, resp, health, sortVars>>

\* line 70: detail=f"File save error: {str(e)}"
FileSaveError(errno) == ErrorResp("FileSaveError", <<"File save error", errno>>)

\* lines 60-70, resumed after `await file.read()`: write the upload to
\* input_path.  open() fails when the workspace is gone; the write may fail
\* for reasons of the disk's own, leaving the file it had opened or not.
\* Neither failure removes the workspace.
Resume(p) ==
  /\ pc[p] = "await"
  /\ LoopFree
  /\ \E ioFail \in BOOLEAN, left \in BOOLEAN :
       /\ IF ~dirExists \/ ioFail
          THEN /\ dirFiles' = IF dirExists /\ left
                           THEN (InputName(original_ext[p]) :> Content(p, InputOrd)) @@ dirFiles
                           ELSE dirFiles
               /\ resp' = [resp EXCEPT ![p] =
                             FileSaveError(IF dirExists THEN "EIO" ELSE "ENOENT")]
               /\ pc' = [pc EXCEPT ![p] = "done"]
               /\ Discard(p)
          ELSE /\ dirFiles' = (InputName(original_ext[p]) :> Content(p, InputOrd)) @@ dirFiles
               /\ resp' = resp
               /\ pc' = [pc EXCEPT ![p] = "run"]
               /\ Keep
  /\ UNCHANGED <<dirExists, toolInstalled, child, started, health, histVars,
                 sortVars>>

\* lines 102-105 without line 104
SpawnLeak(p) ==
  /\ pc[p] = "run"
  /\ IF toolInstalled
     THEN /\ child' = [child EXCEPT ![p] = "running"]
          /\ started' = [started EXCEPT ![p] = @ + 1]
          /\ pc' = [pc EXCEPT ![p] = "tool"]
          /\ UNCHANGED <<fsVars, resp>>
          /\ Keep
     ELSE /\ UNCHANGED fsVars
          /\ resp' = [resp EXCEPT ![p] =
                        ErrorResp("ToolUnavailable", <<"FFmpeg not installed on server">>)]
          /\ pc' = [pc EXCEPT ![p] = "done"]
          /\ UNCHANGED <<child, started>>
          /\ Discard(p)
  /\ UNCHANGED <<toolInstalled, health, histVars, sortVars>>

\* lines 84-91 and 102-105: subprocess.run starts ffmpeg; with no binary it
\* raises FileNotFoundError, which removes the workspace
Spawn(p) ==
  /\ pc[p] = "run"
  /\ IF toolInstalled
     THEN /\ child' = [child EXCEPT ![p] = "running"]
          /\ started' = [started EXCEPT ![p] = @ + 1]
          /\ pc' = [pc EXCEPT ![p] = "tool"]
          /\ UNCHANGED <<fsVars, resp>>
          /\ Keep
     ELSE /\ RmTree
          /\ resp' = [resp EXCEPT ![p] =
                        ErrorResp("ToolUnavailable", <<"FFmpeg not installed on server">>)]
          /\ pc' = [pc EXCEPT ![p] = "done"]
          /\ UNCHANGED <<child, started>>
          /\ Discard(p)
  /\ UNCHANGED <<toolInstalled, health, histVars, sortVars>>

\* the upload whose bytes the request's ffmpeg reads from input_path
ToolInput(p) == dirFiles[InputName(original_ext[p])].src

\* ffmpeg writes its next segment over any file of that name (-y)
ToolWrite(p) ==
  /\ pc[p] = "tool"
  /\ child[p] = "running"
  /\ produced[p] < MaxSeg
  /\ dirFiles' = (SegName(produced[p], original_ext[p]) :> Content(ToolInput(p), produced[p]))
                @@ dirFiles
  /\ produced' = [produced EXCEPT ![p] = @ + 1]
  /\ UNCHANGED <<dirExists, toolInstalled, pc, original_ext, child, started,
                 files, chunks, resp, health, histVars, sortVars>>

\* line 92: ffmpeg exited with code 0 within the timeout
ToolDone(p) ==
  /\ pc[p] = "tool"
  /\ child[p] = "running"
  /\ child' = [child EXCEPT ![p] = "exit0"]
  /\ pc' = [pc EXCEPT ![p] = "list"]
  /\ UNCHANGED <<fsVars, toolInstalled, original_ext, started, produced,
                 files, chunks, resp, health, histVars, sortVars>>

\* line 87 without check=True: a failed run goes on to line 109
ToolFailUnchecked(p) ==
  /\ pc[p] = "tool"
  /\ child[p] = "running"
  /\ child' = [child EXCEPT ![p] = "exit1"]
  /\ pc' = [pc EXCEPT ![p] = "list"]
  /\ UNCHANGED <<fsVars, toolInstalled, original_ext, started, produced, files,
                 chunks, resp, health, histVars, sortVars>>

\* lines 97-101 running ffmpeg again in place of raising
ToolFailRetry(p) ==
  /\ pc[p] = "tool"
  /\ child[p] = "running"
  /\ started' = [started EXCEPT ![p] = @ + 1]
  /\ produced' = [produced EXCEPT ![p] = 0]
  /\ UNCHANGED <<fsVars, toolInstalled, pc, original_ext, child, files, chunks, resp,
                 health, histVars, sortVars>>

\* lines 97-101: ffmpeg exited with another code (check=True)
ToolFail(p) ==
  /\ pc[p] = "tool"
  /\ child[p] = "running"
  /\ child' = [child EXCEPT ![p] = "exit1"]
  /\ RmTree
  /\ resp' = [resp EXCEPT ![p] = ErrorResp("ToolExecutionError", <<"FFmpeg error", "stderr">>)]
  /\ pc' = [pc EXCEPT ![p] = "done"]
  /\ Discard(p)
  /\ UNCHANGED <<toolInstalled, started, health, histVars, sortVars>>

\* lines 93-96 over Popen.wait(timeout=...), which leaves the child running
ToolTimeoutNoKill(p) ==
  /\ pc[p] = "tool"
  /\ child[p] = "running"
  /\ RmTree
  /\ resp' = [resp EXCEPT ![p] =
                ErrorResp("ProcessTimeout", <<"FFmpeg timeout - file may be too large">>)]
  /\ pc' = [pc EXCEPT ![p] = "done"]
  /\ Discard(p)
  /\ UNCHANGED <<toolInstalled, child, started, health, histVars, sortVars>>

\* lines 93-96: the wait ran out; subprocess.run kills the child and reaps
\* it before it raises TimeoutExpired
ToolTimeout(p) ==
  /\ pc[p] = "tool"
  /\ child[p] = "running"
  /\ child' = [child EXCEPT ![p] = "killed"]
  /\ RmTree
  /\ resp' = [resp EXCEPT ![p] =
                ErrorResp("ProcessTimeout", <<"FFmpeg timeout - file may be too large">>)]
  /\ pc' = [pc EXCEPT ![p] = "done"]
  /\ Discard(p)
  /\ UNCHANGED <<toolInstalled, started, health, histVars, sortVars>>

\* lines 108-109
List(p) ==
  /\ pc[p] = "list"
  /\ files' = [files EXCEPT ![p] = ListOutputs(dirFiles)]
  /\ chunks' = [chunks EXCEPT ![p] = <<>>]
  /\ pc' = [pc EXCEPT ![p] = "read"]
  /\ UNCHANGED <<fsVars, toolInstalled, original_ext, child, started, produced,
                 resp, health, histVars, sortVars>>

\* lines 113-124, one turn of the loop
ReadChunk(p) ==
  /\ pc[p] = "read"
  /\ Len(chunks[p]) < Len(files[p])
  /\ LET idx == Len(chunks[p])
         filename == files[p][idx + 1]
     IN chunks' = [chunks EXCEPT ![p] =
                     Append(@, ChunkResponse(idx, filename, dirFiles[filename]))]
  /\ UNCHANGED <<fsVars, toolInstalled, pc, original_ext, child, started,
                 produced, files, resp, health, histVars, sortVars>>

\* lines 109-124 raise (listdir, open, read, b64encode): nothing catches it,
\* the workspace stays and the framework answers 500
ReadFail(p) ==
  /\ \/ pc[p] = "list"
     \/ pc[p] = "read" /\ Len(chunks[p]) < Len(files[p])
  /\ resp' = [resp EXCEPT ![p] =
                ErrorResp("InternalServerError", <<"Internal Server Error">>)]
  /\ pc' = [pc EXCEPT ![p] = "done"]
  /\ Discard(p)
  /\ UNCHANGED <<fsVars, toolInstalled, child, started, health, histVars,
                 sortVars>>

\* lines 126-135
Finish(p) ==
  /\ pc[p] = "read"
  /\ Len(chunks[p]) = Len(files[p])
  /\ RmTree
  /\ resp' = [resp EXCEPT ![p] = SplitResponse(chunks[p])]
  /\ pc' = [pc EXCEPT ![p] = "done"]
  /\ Discard(p)
  /\ UNCHANGED <<toolInstalled, child, started, health, histVars, sortVars>>

\* line 157 as `ffmpeg_ok = True`: any run that ends counts as available
HealthResponseAnyExit(outcome) ==
  LET raised == outcome \in {"absent", "timeout"}
      ffmpeg_ok == ~raised
  IN [outcome |-> outcome,
      status |-> IF ffmpeg_ok THEN "healthy" ELSE "unhealthy",
      ffmpeg |-> IF ffmpeg_ok THEN "available" ELSE "not available",
      ffmpeg_version |-> IF raised THEN "str(e)" ELSE "first line of stdout",
      http |-> 200]

\* lines 157-167
HealthResponse(outcome) ==
  LET raised == outcome \in {"absent", "timeout"}
      ffmpeg_ok == ~raised /\ outcome = "exit0"
  IN [outcome |-> outcome,
      status |-> IF ffmpeg_ok THEN "healthy" ELSE "unhealthy",
      ffmpeg |-> IF ffmpeg_ok THEN "available" ELSE "not available",
      ffmpeg_version |-> IF raised THEN "str(e)"
                         ELSE IF ffmpeg_ok THEN "first line of stdout"
                         ELSE "N/A",
      http |-> 200]

\* what `ffmpeg -version` can come to under its timeout
VersionOutcomes ==
  IF toolInstalled THEN {"exit0", "exit1", "timeout"} ELSE {"absent"}

\* lines 148-167
HealthCheck ==
  /\ \E outcome \in VersionOutcomes : health' = HealthResponse(outcome)
  /\ UNCHANGED <<fsVars, toolInstalled, reqVars, histVars, sortVars>>

Next ==
  \/ \E p \in Reqs : Begin(p)
  \/ \E p \in Reqs : Resume(p)
  \/ \E p \in Reqs : Spawn(p)
  \/ \E p \in Reqs : ToolWrite(p)
  \/ \E p \in Reqs : ToolDone(p)
  \/ \E p \in Reqs : ToolFail(p)
  \/ \E p \in Reqs : ToolTimeout(p)
  \/ \E p \in Reqs : List(p)
  \/ \E p \in Reqs : ReadChunk(p)
  \/ \E p \in Reqs : ReadFail(p)
  \/ \E p \in Reqs : Finish(p)
  \/ HealthCheck

Spec == Init /\ [][Next]_vars

\* -------------------------------------- the order of line 109, by itself
\* line 109 orders two output names by string comparison
CompareNames(a, b) ==
  IF LexLess(a, b) THEN "lt" ELSE IF LexLess(b, a) THEN "gt" ELSE "eq"

\* ".m4a", ".mp3", ".3gp"
SortExts == {DefaultExt, Mp3Ext, <<46, 51, 103, 112>>}

\* two segments of one run, the earlier in ordA
InitSort ==
  /\ dirExists = FALSE /\ dirFiles = NoFiles /\ toolInstalled = TRUE
  /\ pc = [p \in Reqs |-> "idle"]
  /\ original_ext = [p \in Reqs |-> <<>>]
  /\ child = [p \in Reqs |-> "none"]
  /\ started = [p \in Reqs |-> 0]
  /\ produced = [p \in Reqs |-> 0]
  /\ files = [p \in Reqs |-> <<>>]
  /\ chunks = [p \in Reqs |-> <<>>]
  /\ resp = [p \in Reqs |-> NoResp]
  /\ health = NoHealth
  /\ overlap = FALSE
  /\ ordA \in 0..MaxOrdinal
  /\ ordB \in (ordA + 1)..MaxOrdinal
  /\ ordExt \in SortExts
  /\ cmp = "none"

Compare ==
  /\ cmp = "none"
  /\ cmp' = CompareNames(SegName(ordA, ordExt), SegName(ordB, ordExt))
  /\ UNCHANGED <<fsVars, toolInstalled, reqVars, health, histVars, ordA, ordB,
                 ordExt>>

SpecSort == InitSort /\ [][Compare]_vars

\* ------------------------------------------------------------------ claims
Idle == \A p \in Reqs : ~InProgress(p)
Answered(p) == resp[p].kind # "none"
OwnChunks(p, cs) == \A i \in 1..Len(cs) : cs[i].data.src = p

\* C1: whenever no Split is in progress, the workspace directory is absent.
C1_NoWorkspaceWhenIdle == Idle => ~dirExists

\* C2: whatever other Splits do meanwhile, a Split never finds its workspace
\* deleted under it (no FileSaveError for a missing directory) and never
\* returns a chunk read from another upload's files: short of a fault of
\* its own disk or tool it completes with chunks of its own upload.
C2_Isolated ==
  \A p \in Reqs :
    /\ resp[p].kind = "FileSaveError" => resp[p].detail[2] # "ENOENT"
    /\ resp[p].success => OwnChunks(p, resp[p].chunks)

\* C3: the wait on the tool runs out exactly when Split answers
\* ProcessTimeout with HTTP 500, and in the state where that answer is given
\* the child is killed, not running, and the workspace is absent.
C3_TimeoutKillsAndCleans ==
  [][\A p \in Reqs :
       /\ (child[p] = "running" /\ child'[p] \notin {"running", "exit0", "exit1"})
            => (~Answered(p) /\ resp'[p].kind = "ProcessTimeout")
       /\ (~Answered(p) /\ resp'[p].kind = "ProcessTimeout")
            => /\ child[p] = "running"
               /\ child'[p] = "killed"
               /\ ~dirExists'
               /\ resp'[p].status = HttpError
               /\ ~resp'[p].success]_vars

C3_Witness ==
  \E p \in Reqs :
    resp[p].kind = "ProcessTimeout" /\ child[p] = "killed" /\ ~dirExists

\* C4: starting the tool with no binary installed makes Split answer
\* ToolUnavailable, HTTP 500 with the fixed detail; the workspace held the
\* written input file before that answer and is absent with it.
C4_ToolUnavailableCleans ==
  [][\A p \in Reqs :
       /\ (pc[p] = "run" /\ ~toolInstalled /\ pc'[p] # "run")
            => (~Answered(p) /\ resp'[p].kind = "ToolUnavailable")
       /\ (~Answered(p) /\ resp'[p].kind = "ToolUnavailable")
            => /\ ~toolInstalled
               /\ dirExists
               /\ InputName(original_ext[p]) \in DOMAIN dirFiles
               /\ dirFiles[InputName(original_ext[p])] = Content(p, InputOrd)
               /\ ~dirExists'
               /\ resp'[p].status = HttpError
               /\ resp'[p].detail = <<"FFmpeg not installed on server">>
               /\ started'[p] = 0]_vars

C4_Witness ==
  \E p \in Reqs :
    resp[p].kind = "ToolUnavailable" /\ ~dirExists /\ child[p] = "none"

\* C5: a successful Split returns exactly the files its own tool run wrote,
\* one chunk each, indexed from 0 in strictly ascending order of file name,
\* and never the input file.
C5_ChunksAreOwnOutputs ==
  [][\A p \in Reqs :
       (~Answered(p) /\ resp'[p].success) =>
         LET cs == resp'[p].chunks
         IN /\ resp'[p].totalChunks = produced[p]
            /\ Len(cs) = produced[p]
            /\ \A i \in 1..Len(cs) :
                 /\ cs[i].index = i - 1
                 /\ cs[i].data = Content(p, i - 1)
                 /\ cs[i].fileName = SegName(i - 1, original_ext[p])
                 /\ i < Len(cs) => LexLess(cs[i].fileName, cs[i + 1].fileName)]_vars

\* C6: a response with success and chunks is given only when the upload was
\* written, the tool exited with code 0 and every listed file was read; any
\* other answer is an error with no chunks.
C6_AllOrNothing ==
  [][\A p \in Reqs :
       /\ (~Answered(p) /\ resp'[p].success)
            => /\ InputName(original_ext[p]) \in DOMAIN dirFiles
               /\ dirFiles[InputName(original_ext[p])] = Content(p, InputOrd)
               /\ child[p] = "exit0"
               /\ Len(chunks[p]) = Len(files[p])
               /\ \A i \in 1..Len(files[p]) :
                    chunks[p][i] = ChunkResponse(i - 1, files[p][i],
                                                 dirFiles[files[p][i]])
               /\ resp'[p].chunks = chunks[p]
               /\ resp'[p].totalChunks = Len(files[p])
       /\ (~Answered(p) /\ Answered(p)' /\ ~resp'[p].success)
            => /\ resp'[p].status = HttpError
               /\ resp'[p].chunks = <<>>
               /\ resp'[p].totalChunks = 0
       /\ (pc'[p] = "done" /\ child'[p] # "exit0") => ~resp'[p].success]_vars

C6_Witness ==
  \E p, q \in Reqs :
    /\ resp[p].success /\ resp[p].totalChunks = MaxSeg
    /\ resp[q].kind = "ToolExecutionError"

\* C7 as stated: every finished Split has started exactly one tool process.
C7_ExactlyOneChild ==
  \A p \in Reqs : pc[p] = "done" => started[p] = 1

\* C7 as amended: a Split never starts more than one tool process, and a
\* finished Split has started exactly one unless it failed with
\* FileSaveError or ToolUnavailable, in which case it has started none.
C7_AtMostOneChild ==
  \A p \in Reqs :
    /\ started[p] <= 1
    /\ pc[p] = "done" =>
         (started[p] = 0 <=> resp[p].kind \in {"FileSaveError", "ToolUnavailable"})

C7_Witness ==
  \E p, q \in Reqs :
    /\ resp[p].kind = "FileSaveError" /\ started[p] = 0
    /\ resp[q].kind \in {"ToolExecutionError", "ok"} /\ started[q] = 1

\* C8: every health check answers (HTTP 200) with status healthy and ffmpeg
\* available exactly when the version query exited with code 0, unhealthy
\* and not available otherwise, and changes nothing in the workspace.
C8_HealthNeverFails ==
  [][health' # health =>
       /\ UNCHANGED fsVars
       /\ health'.http = 200
       /\ health'.outcome \in {"exit0", "exit1", "timeout", "absent"}
       /\ IF health'.outcome = "exit0"
          THEN health'.status = "healthy" /\ health'.ffmpeg = "available"
          ELSE health'.status = "unhealthy" /\ health'.ffmpeg = "not available"
       /\ (health'.outcome = "absent") = ~toolInstalled]_vars

C8_Witness ==
  /\ health.outcome = "exit1"
  /\ health.status = "unhealthy"
  /\ dirExists
  /\ \E f \in DOMAIN dirFiles : StartsWith(f, OutPrefix)

\* C9: for two segments of one run, the earlier ordinal's file name sorts
\* first whenever both ordinals fit the pad (at most 999); an ordinal of four
\* digits sorts before every padded ordinal above its first three digits.
RECURSIVE Pow10(_)
Pow10(w) == IF w = 0 THEN 1 ELSE 10 * Pow10(w - 1)
MaxPadded == Pow10(PadWidth) - 1

C9_PaddedOrder ==
  cmp # "none" =>
    /\ ordB <= MaxPadded => cmp = "lt"
    /\ (ordB > MaxPadded /\ ordA <= MaxPadded /\ ordA > ordB \div 10)
         => cmp = "gt"

C9_Witness ==
  cmp = "lt" /\ ordA = 99 /\ ordB = MaxPadded /\ ordExt = Mp3Ext

\* C10: while Splits have only run one after another, a Split in progress
\* has a workspace holding files of its own upload only, and a successful
\* Split returns chunks of its own upload only, all of them counted.
C10_NoStaleFiles ==
  ~overlap =>
    \A p \in Reqs :
      /\ InProgress(p) =>
           dirExists /\ \A f \in DOMAIN dirFiles : dirFiles[f].src = p
      /\ pc[p] = "await" => dirFiles = NoFiles
      /\ resp[p].success =>
           /\ OwnChunks(p, resp[p].chunks)
           /\ resp[p].totalChunks = Len(resp[p].chunks)

C10_Witness ==
  \E p, q \in Reqs :
    /\ ~overlap
    /\ resp[q].kind = "InternalServerError"
    /\ resp[p].success /\ resp[p].totalChunks > 0
    /\ ~dirExists

====
